---- MODULE Spec2Model ----
(***************************************************************************)
(* Model of mlpython/misc/io.py: the dataset iterators                     *)
(* (IteratorWithFields, MemoryDataset, FileDataset) and the LIBSVM line    *)
(* parser and file loader (libsvm_load_line, libsvm_load).                 *)
(*                                                                         *)
(* Text is modelled at the level the code works on it: a line is the       *)
(* sequence of its whitespace-separated tokens (line.strip().split()), a   *)
(* token is the sequence of its characters, so that find(':'),             *)
(* split(':'), isdigit(), int() and float() are computed, not assumed.     *)
(* An exception is a result whose err field names the exception.           *)
(***************************************************************************)
EXTENDS Integers, Sequences, FiniteSets, TLC

VARIABLES
    \* libsvm_load_line called on one line, in both modes
    line, cnv, size, sparseOut, denseOut,
    \* libsvm_load
    file, sparse, given_input_size, input_size, targets, data, lpc, lpass, lpos, lerr,
    \* FileDataset iteration passes
    fdfile, pstate, stream, yielded,
    \* MemoryDataset
    msrc, mkind, mlength, mshapes, mdtypes, mpc, mem_data, mem_length, mout,
    \* IteratorWithFields
    rows, fields, fout, fpc

lineVars == <<line, cnv, size, sparseOut, denseOut>>
loadVars ==
    <<file, sparse, given_input_size, input_size, targets, data, lpc, lpass, lpos, lerr>>
fdVars   == <<fdfile, pstate, stream, yielded>>
memVars  == <<msrc, mkind, mlength, mshapes, mdtypes, mpc, mem_data, mem_length, mout>>
fldVars  == <<rows, fields, fout, fpc>>
vars == <<lineVars, loadVars, fdVars, memVars, fldVars>>

(***************************************************************************)
(* Bounds                                                                  *)
(***************************************************************************)
MaxFeat  == 2   \* feature tokens per line, for the line parser
MaxSize  == 3   \* largest input_size a caller supplies
MaxLines == 2   \* lines per file
MaxLen   == 2   \* examples in a MemoryDataset source
MaxCols  == 2   \* columns of the IteratorWithFields buffer

None == -1000   \* Python's None for an optional integer argument

(***************************************************************************)
(* Strings                                                                 *)
(***************************************************************************)
Digits == {"0", "1", "2", "3", "4", "5", "6", "7", "8", "9"}

DigitVal(c) ==
    CASE c = "0" -> 0 [] c = "1" -> 1 [] c = "2" -> 2 [] c = "3" -> 3
      [] c = "4" -> 4 [] c = "5" -> 5 [] c = "6" -> 6 [] c = "7" -> 7
      [] c = "8" -> 8 [] c = "9" -> 9

\* str.find(':'): the 0-based position of the first ':', -1 when there is none
RECURSIVE FindFrom(_, _)
FindFrom(s, k) ==
    IF k > Len(s) THEN -1
    ELSE IF s[k] = ":" THEN k - 1
    ELSE FindFrom(s, k + 1)

Find(s) == FindFrom(s, 1)

\* s[:n]
Prefix(s, n) == SubSeq(s, 1, n)

\* str.isdigit(): non-empty and every character a digit
IsDigit(s) == Len(s) > 0 /\ \A k \in 1..Len(s) : s[k] \in Digits

\* int(s) of a digit string
RECURSIVE int(_)
int(s) ==
    IF Len(s) = 0 THEN 0
    ELSE 10 * int(SubSeq(s, 1, Len(s) - 1)) + DigitVal(s[Len(s)])

\* str.split(':'): the pieces between all the ':' of s
RECURSIVE Split(_)
Split(s) ==
    IF Find(s) = -1 THEN <<s>>
    ELSE <<Prefix(s, Find(s))>> \o Split(SubSeq(s, Find(s) + 2, Len(s)))

\* float(s) accepts an optionally signed digit string (of the characters used
\* here); anything else raises ValueError
IsFloat(s) ==
    IF Len(s) > 0 /\ s[1] \in {"-", "+"} THEN IsDigit(Tail(s)) ELSE IsDigit(s)

Float(s) ==
    IF s[1] = "-" THEN 0 - int(Tail(s))
    ELSE IF s[1] = "+" THEN int(Tail(s))
    ELSE int(s)

\* np.zeros((n))
Zeros(n) == [k \in 1..n |-> 0]

(***************************************************************************)
(* libsvm_load_line                                                        *)
(***************************************************************************)
\* First loop (lines 175-185): walks a copy of the tokens (zip builds a list)
\* and deletes from tokens those whose id is all digits and < 1, counting the
\* others whose id is all digits.  st = [tokens, n_removed, n_feat].
RemoveStep(token, i, st) ==
    IF Find(token) >= 0 /\ IsDigit(Prefix(token, Find(token)))
    THEN IF int(Prefix(token, Find(token))) < 1
         THEN [tokens |-> SubSeq(st.tokens, 1, i - st.n_removed)
                           \o SubSeq(st.tokens, i - st.n_removed + 2, Len(st.tokens)),
               n_removed |-> st.n_removed + 1,
               n_feat |-> st.n_feat]
         ELSE [st EXCEPT !.n_feat = st.n_feat + 1]
    ELSE st

RECURSIVE RemoveLoop(_, _, _)
RemoveLoop(orig, i, st) ==
    IF i >= Len(orig) THEN st
    ELSE RemoveLoop(orig, i + 1, RemoveStep(orig[i + 1], i, st))

RemoveIndices(tokens) ==
    RemoveLoop(tokens, 0, [tokens |-> tokens, n_removed |-> 0, n_feat |-> 0])

Raise(st, e) == [st EXCEPT !.err = e]

\* convert_non_digit_features(id_str, input_str): the default, float, takes one
\* argument and raises TypeError; "pair" is a caller's function that keeps both
\* strings.
ConvertNonDigit(c, id_str, input_str) ==
    IF c = "float" THEN <<"TypeError">> ELSE <<"ok", id_str, input_str>>

\* convert_target, by default str
ConvertTarget(tok) == tok

\* the position int(id_str)-1 that line 202 writes
DenseIndexOffByOne(id_str) == int(id_str)

DenseIndex(id_str) == int(id_str) - 1

\* token.split(':') of line 196
SplitAtFirst(token) ==
    IF Find(token) = -1 THEN <<token>>
    ELSE <<Prefix(token, Find(token)), SubSeq(token, Find(token) + 2, Len(token))>>

SplitToken(token) == Split(token)

\* Body of the second loop (lines 196-205) for one token.
FillStep(token, st, sp, c) ==
    LET parts == SplitToken(token) IN
    IF Len(parts) # 2 THEN Raise(st, "ValueError")      \* id_str,input_str = ...
    ELSE
      LET id_str == parts[1]
          input_str == parts[2]
      IN
      IF IsDigit(id_str)
      THEN IF sp
           THEN IF st.i >= Len(st.indices) THEN Raise(st, "IndexError")
                ELSE IF ~IsFloat(input_str) THEN Raise(st, "ValueError")
                ELSE [st EXCEPT !.indices[st.i + 1] = int(id_str),
                                !.inputs[st.i + 1] = Float(input_str),
                                !.i = st.i + 1]
           ELSE LET n == Len(st.input)
                    j == DenseIndex(id_str)
                IN
                IF ~IsFloat(input_str) THEN Raise(st, "ValueError")
                ELSE IF j >= n \/ j < 0 - n THEN Raise(st, "IndexError")
                ELSE [st EXCEPT !.input[(IF j < 0 THEN j + n ELSE j) + 1] = Float(input_str),
                                !.i = st.i + 1]
      ELSE LET x == ConvertNonDigit(c, id_str, input_str) IN
           IF x[1] = "TypeError" THEN Raise(st, "TypeError")
           ELSE [st EXCEPT !.extra = Append(st.extra, <<x[2], x[3]>>)]

RECURSIVE FillLoop(_, _, _, _, _)
FillLoop(toks, k, st, sp, c) ==
    IF k > Len(toks) \/ st.err # "" THEN st
    ELSE FillLoop(toks, k + 1, FillStep(toks[k], st, sp, c), sp, c)

NoExample(e) ==
    [err |-> e, inputs |-> <<>>, indices |-> <<>>, input |-> <<>>,
     target |-> <<>>, extra |-> <<>>, n_feat |-> 0]

\* The example libsvm_load_line returns, or the exception it raises.  A sparse
\* example is [(inputs, indices), target] + extra, a dense one
\* [input, target] + extra; n_feat is the length of inputs and indices.
libsvm_load_line(ln, c, sp, isz) ==
    LET r == RemoveIndices(ln)
        tokens == r.tokens
        st0 == [i |-> 0, err |-> "",
                inputs |-> IF sp THEN Zeros(r.n_feat) ELSE <<>>,
                indices |-> IF sp THEN Zeros(r.n_feat) ELSE <<>>,
                input |-> IF sp THEN <<>> ELSE Zeros(isz),
                extra |-> <<>>]
        st == FillLoop(Tail(tokens), 1, st0, sp, c)
    IN
    IF ~sp /\ isz < 0 THEN NoExample("ValueError")      \* np.zeros((input_size))
    ELSE IF Len(tokens) = 0 THEN NoExample("IndexError") \* tokens[0]
    ELSE IF st.err # "" THEN NoExample(st.err)
    ELSE [err |-> "", inputs |-> st.inputs, indices |-> st.indices,
          input |-> st.input, target |-> ConvertTarget(tokens[1]),
          extra |-> st.extra, n_feat |-> r.n_feat]

(***************************************************************************)
(* Inputs                                                                  *)
(***************************************************************************)
SeqsUpTo(S, n) == UNION {[1..k -> S] : k \in 0..n}

\* target tokens
Labels == {<<"+", "1">>, <<"-", "1">>}

\* feature tokens: well-formed ones, a repeated index, a zero index, an index
\* with a leading zero, a negative index, a non-numeric id, a value that holds
\* a ':' (after a non-numeric id, after a zero index), a token without ':', a
\* value that is no number
FeatTokens ==
    {<<"1", ":", "5">>, <<"2", ":", "7">>, <<"3", ":", "2">>, <<"1", ":", "9">>,
     <<"0", ":", "4">>, <<"0", "2", ":", "6">>, <<"-", "1", ":", "6">>,
     <<"a", ":", "9">>, <<"a", ":", "1", ":", "2">>, <<"0", ":", "1", ":", "2">>,
     <<"5">>, <<"2", ":", "x">>}

\* first tokens of a line: a label, or (a line without label) a feature token
HeadTokens == Labels \cup {<<"0", ":", "4">>, <<"2", ":", "7">>}

Lines ==
    {<<>>} \cup {<<h>> \o f : h \in HeadTokens, f \in SeqsUpTo(FeatTokens, MaxFeat)}

Converters == {"float", "pair"}

Pending == NoExample("pending")

(***************************************************************************)
(* Variables a specification does not use keep these values.               *)
(***************************************************************************)
LineIdle ==
    /\ line = <<>> /\ size = 0 /\ sparseOut = Pending /\ denseOut = Pending

LoadIdle ==
    /\ file = <<>> /\ sparse = TRUE /\ given_input_size = None /\ input_size = 0
    /\ targets = {} /\ data = <<>> /\ lpc = "idle" /\ lpass = 1 /\ lpos = 0
    /\ lerr = ""

FdIdle ==
    /\ fdfile = <<>> /\ pstate = <<>> /\ stream = <<>> /\ yielded = <<>>

MemIdle ==
    /\ msrc = <<>> /\ mkind = "list" /\ mlength = None /\ mshapes = <<>>
    /\ mdtypes = <<>> /\ mpc = "idle" /\ mem_data = <<>> /\ mem_length = 0
    /\ mout = <<>>

FldIdle ==
    /\ rows = <<>> /\ fields = <<>> /\ fout = <<>> /\ fpc = "idle"

(***************************************************************************)
(* SpecLine: libsvm_load_line applied to one line in sparse and in dense   *)
(* mode.                                                                   *)
(***************************************************************************)
LineInit ==
    /\ line \in Lines
    /\ cnv \in Converters
    /\ size \in (-1)..MaxSize
    /\ sparseOut = Pending
    /\ denseOut = Pending
    /\ LoadIdle /\ FdIdle /\ MemIdle /\ FldIdle

LoadLineSparse ==
    /\ sparseOut = Pending
    /\ sparseOut' = libsvm_load_line(line, cnv, TRUE, -1)
    /\ UNCHANGED <<line, cnv, size, denseOut, loadVars, fdVars, memVars, fldVars>>

LoadLineDense ==
    /\ denseOut = Pending
    /\ denseOut' = libsvm_load_line(line, cnv, FALSE, size)
    /\ UNCHANGED <<line, cnv, size, sparseOut, loadVars, fdVars, memVars, fldVars>>

LineNext == LoadLineSparse \/ LoadLineDense

SpecLine == LineInit /\ [][LineNext]_vars

(***************************************************************************)
(* SpecLoad: libsvm_load, one loop iteration per step; lpass is the pass   *)
(* over the file that is running or has run last, lpos the number of lines *)
(* it has read.                                                            *)
(***************************************************************************)
\* lines of a libsvm file: "+1 1:5 3:2", "-1 2:7", "+1" (no feature),
\* "-1 0:4" (only a zero index), "+1 0:4 2:7", "-1 a:9 1:5" (a non-numeric
\* id), "+1 5" (no ':'), and a blank line
LoadLines ==
    {<<<<"+", "1">>, <<"1", ":", "5">>, <<"3", ":", "2">>>>,
     <<<<"-", "1">>, <<"2", ":", "7">>>>,
     <<<<"+", "1">>>>,
     <<<<"-", "1">>, <<"0", ":", "4">>>>,
     <<<<"+", "1">>, <<"0", ":", "4">>, <<"2", ":", "7">>>>,
     <<<<"-", "1">>, <<"a", ":", "9">>, <<"1", ":", "5">>>>,
     <<<<"+", "1">>, <<"5">>>>,
     <<>>}

Files == SeqsUpTo(LoadLines, MaxLines)

\* max(example[0][1]) of a non-empty vector of indices
RECURSIVE Max(_)
Max(v) ==
    IF Len(v) = 1 THEN v[1]
    ELSE IF v[Len(v)] > Max(SubSeq(v, 1, Len(v) - 1)) THEN v[Len(v)]
    ELSE Max(SubSeq(v, 1, Len(v) - 1))

\* lines 258-259
UpdateInputSizeAlways(given, cur, max_non_zero_feature) ==
    IF max_non_zero_feature > cur THEN max_non_zero_feature ELSE cur

UpdateInputSize(given, cur, max_non_zero_feature) ==
    IF given = None /\ max_non_zero_feature > cur THEN max_non_zero_feature ELSE cur

\* lines 249-253
InitialInputSize(given) == IF given = None THEN 0 ELSE given

LoadInit ==
    /\ file \in Files
    /\ cnv \in Converters
    /\ sparse \in BOOLEAN
    /\ given_input_size \in {None} \cup 0..MaxSize
    /\ input_size = InitialInputSize(given_input_size)
    /\ targets = {}
    /\ data = <<>>
    /\ lpc = "pass1"
    /\ lpass = 1
    /\ lpos = 0
    /\ lerr = ""
    /\ LineIdle /\ FdIdle /\ MemIdle /\ FldIdle

\* one iteration of the loop of lines 255-264
FirstPassLine ==
    /\ lpc = "pass1"
    /\ lpos < Len(file)
    /\ lpos' = lpos + 1
    /\ LET example == libsvm_load_line(file[lpos + 1], cnv, TRUE, -1) IN
       IF example.err # ""
       THEN /\ lpc' = "raised"
            /\ lerr' = example.err
            /\ UNCHANGED <<input_size, targets, data>>
       ELSE IF Len(example.indices) = 0       \* max() of an empty sequence
       THEN /\ lpc' = "raised"
            /\ lerr' = "ValueError"
            /\ UNCHANGED <<input_size, targets, data>>
       ELSE /\ input_size' = UpdateInputSize(given_input_size, input_size,
                                             Max(example.indices))
            /\ targets' = targets \cup {example.target}
            /\ data' = IF sparse THEN Append(data, example) ELSE data
            /\ UNCHANGED <<lpc, lerr>>
    /\ UNCHANGED <<lpass, file, cnv, sparse, given_input_size>>
    /\ UNCHANGED <<line, size, sparseOut, denseOut, fdVars, memVars, fldVars>>

\* lines 265-267 and, in sparse mode, 275-277
FirstPassEnd ==
    /\ lpc = "pass1"
    /\ lpos = Len(file)
    /\ lpc' = IF sparse THEN "done" ELSE "pass2"
    /\ lpos' = IF sparse THEN lpos ELSE 0
    /\ lpass' = IF sparse THEN 1 ELSE 2
    /\ UNCHANGED <<file, cnv, sparse, given_input_size, input_size, targets, data, lerr>>
    /\ UNCHANGED <<line, size, sparseOut, denseOut, fdVars, memVars, fldVars>>

\* one iteration of the loop of lines 270-272
SecondPassLine ==
    /\ lpc = "pass2"
    /\ lpos < Len(file)
    /\ lpos' = lpos + 1
    /\ LET example == libsvm_load_line(file[lpos + 1], cnv, FALSE, input_size) IN
       IF example.err # ""
       THEN /\ lpc' = "raised"
            /\ lerr' = example.err
            /\ UNCHANGED data
       ELSE /\ data' = Append(data, example)
            /\ UNCHANGED <<lpc, lerr>>
    /\ UNCHANGED <<lpass, file, cnv, sparse, given_input_size, input_size, targets>>
    /\ UNCHANGED <<line, size, sparseOut, denseOut, fdVars, memVars, fldVars>>

\* lines 273-277
SecondPassEnd ==
    /\ lpc = "pass2"
    /\ lpos = Len(file)
    /\ lpc' = "done"
    /\ UNCHANGED <<lpass, file, cnv, sparse, given_input_size, input_size, targets, data,
                   lpos, lerr>>
    /\ UNCHANGED <<line, size, sparseOut, denseOut, fdVars, memVars, fldVars>>

\* what libsvm_load returns with data once lpc = "done"
metadata == [targets |-> targets, input_size |-> input_size]

LoadNext == FirstPassLine \/ FirstPassEnd \/ SecondPassLine \/ SecondPassEnd

SpecLoad == LoadInit /\ [][LoadNext]_vars

(***************************************************************************)
(* SpecFile: iteration passes over one FileDataset.  A pass is the         *)
(* generator FileDataset.__iter__ returns: "new" before its first next(),  *)
(* "suspended" at the yield, "done" after StopIteration, "raised" when     *)
(* load_line raised, "abandoned" when the caller reads no further, and     *)
(* "discarded" once the generator object has been reclaimed.               *)
(***************************************************************************)
NPasses == 2

Passes == 1..NPasses

\* lines of a file of numbers: "5", "7 -2", "a" (no number), and a blank line
FdLines == {<<<<"5">>>>, <<<<"7">>, <<"-", "2">>>>, <<<<"a">>>>, <<>>}

\* load_line_default: np.array([float(i) for i in line.split()])
load_line_default(ln) ==
    IF \E k \in 1..Len(ln) : ~IsFloat(ln[k])
    THEN [err |-> "ValueError", val |-> <<>>]
    ELSE [err |-> "", val |-> [k \in 1..Len(ln) |-> Float(ln[k])]]

\* the load_line that load_from_file stores in the FileDataset
load_line(ln) == load_line_default(ln)

\* open(filename): a handle of pass p, at the start of the file
OpenStreamShared(p, streams) ==
    [open |-> TRUE,
     pos |-> CHOOSE m \in {streams[q].pos : q \in Passes} :
                 \A q \in Passes : streams[q].pos <= m]

OpenStream(p, streams) == [open |-> TRUE, pos |-> 0]

\* stream.close()
CloseStream(st) == [st EXCEPT !.open = FALSE]

FdInit ==
    /\ fdfile \in SeqsUpTo(FdLines, MaxLines)
    /\ pstate = [p \in Passes |-> "new"]
    /\ stream = [p \in Passes |-> [open |-> FALSE, pos |-> 0]]
    /\ yielded = [p \in Passes |-> <<>>]
    /\ cnv = "float"
    /\ LineIdle /\ LoadIdle /\ MemIdle /\ FldIdle

\* next() on pass p: runs the generator to its next yield, to its end, or to
\* the exception of load_line
FdNext(p) ==
    /\ pstate[p] \in {"new", "suspended"}
    /\ LET st == IF pstate[p] = "new" THEN OpenStream(p, stream) ELSE stream[p] IN
       IF st.pos < Len(fdfile)
       THEN LET r == load_line(fdfile[st.pos + 1]) IN
            /\ stream' = [stream EXCEPT ![p] = [st EXCEPT !.pos = st.pos + 1]]
            /\ IF r.err # ""
               THEN /\ pstate' = [pstate EXCEPT ![p] = "raised"]
                    /\ UNCHANGED yielded
               ELSE /\ pstate' = [pstate EXCEPT ![p] = "suspended"]
                    /\ yielded' = [yielded EXCEPT ![p] = Append(yielded[p], r.val)]
       ELSE /\ stream' = [stream EXCEPT ![p] = CloseStream(st)]
            /\ pstate' = [pstate EXCEPT ![p] = "done"]
            /\ UNCHANGED yielded
    /\ UNCHANGED <<fdfile, cnv, line, size, sparseOut, denseOut, loadVars, memVars, fldVars>>

\* the caller stops calling next() on a suspended pass and keeps the generator
FdAbandon(p) ==
    /\ pstate[p] = "suspended"
    /\ pstate' = [pstate EXCEPT ![p] = "abandoned"]
    /\ UNCHANGED <<fdfile, stream, yielded>>
    /\ UNCHANGED <<cnv, line, size, sparseOut, denseOut, loadVars, memVars, fldVars>>

\* the interpreter reclaims the generator of an unfinished pass; its frame's
\* file object goes with it
FdDiscard(p) ==
    /\ pstate[p] \in {"abandoned", "raised"}
    /\ pstate' = [pstate EXCEPT ![p] = "discarded"]
    /\ stream' = [stream EXCEPT ![p] = CloseStream(stream[p])]
    /\ UNCHANGED <<fdfile, yielded>>
    /\ UNCHANGED <<cnv, line, size, sparseOut, denseOut, loadVars, memVars, fldVars>>

FdStep == \E p \in Passes : FdNext(p) \/ FdAbandon(p) \/ FdDiscard(p)

SpecFile == FdInit /\ [][FdStep]_vars

(***************************************************************************)
(* SpecMem: MemoryDataset built from a source and iterated.                *)
(* Numbers are counted in halves (3 is 1.5), so that a buffer of dtype int *)
(* truncates what it stores.  A field of shape (1,) holds a scalar, a      *)
(* field of shape (2,) a vector of two.                                    *)
(***************************************************************************)
NIter == 2      \* iteration passes over the built dataset

Vals == {0, 3}

ShapeLists == {<<"scalar">>, <<"vec">>, <<"vec", "scalar">>}

FieldVals(sh) == IF sh = "scalar" THEN Vals ELSE [1..2 -> Vals]

\* the examples that conform to field_shapes: the field itself when there is
\* one field, a sequence of the fields otherwise
Examples(shapes) ==
    IF Len(shapes) = 1 THEN FieldVals(shapes[1])
    ELSE {<<a, b>> : a \in FieldVals(shapes[1]), b \in FieldVals(shapes[2])}

\* storing v in a buffer of the given dtype
CastNum(dt, v) == IF dt = "int" THEN v - (v % 2) ELSE v

Cast(dt, sh, v) ==
    IF sh = "scalar" THEN CastNum(dt, v) ELSE [k \in 1..2 |-> CastNum(dt, v[k])]

\* np.zeros(mem_shape, dtype): length rows of zeros (lines 83-90)
ZeroBuffer(length, sh) ==
    [t \in 1..length |-> IF sh = "scalar" THEN 0 ELSE <<0, 0>>]

\* what a for loop over data sees: a list is read from its start every time, a
\* generator only hands out what no earlier loop has consumed
Iterate(kind, src, consumed) ==
    IF kind = "generator" /\ consumed THEN <<>> ELSE src

\* lines 77-82
FigureLength(length, kind, src) ==
    IF length = None THEN Len(Iterate(kind, src, FALSE)) ELSE length

\* lines 93-102: st = [mem, err]; example number t (from 0) goes to row t of
\* every buffer
RECURSIVE CopyLoop(_, _, _, _, _)
CopyLoop(items, t, st, shapes, dtypes) ==
    IF t >= Len(items) \/ st.err # "" THEN st
    ELSE IF t >= Len(st.mem[1]) THEN [st EXCEPT !.err = "IndexError"]
    ELSE CopyLoop(items, t + 1,
             [st EXCEPT !.mem =
                 [i \in 1..Len(shapes) |->
                     [st.mem[i] EXCEPT ![t + 1] =
                         Cast(dtypes[i], shapes[i],
                              IF Len(shapes) = 1 THEN items[t + 1]
                              ELSE items[t + 1][i])]]],
             shapes, dtypes)

MemInit ==
    /\ mshapes \in ShapeLists
    /\ mdtypes \in [1..Len(mshapes) -> {"int", "float"}]
    /\ msrc \in SeqsUpTo(Examples(mshapes), MaxLen)
    /\ mkind \in {"list", "generator"}
    /\ mlength \in {None} \cup 0..MaxLen
    /\ mpc = "new"
    /\ mem_data = <<>>
    /\ mem_length = 0
    /\ mout = <<>>
    /\ cnv = "float"
    /\ LineIdle /\ LoadIdle /\ FdIdle /\ FldIdle

\* MemoryDataset.__init__
MemConstruct ==
    /\ mpc = "new"
    /\ LET length == FigureLength(mlength, mkind, msrc)
           items == Iterate(mkind, msrc, mlength = None)
           st == CopyLoop(items, 0,
                          [mem |-> [i \in 1..Len(mshapes) |-> ZeroBuffer(length, mshapes[i])],
                           err |-> ""],
                          mshapes, mdtypes)
       IN
       /\ mem_length' = length
       /\ mem_data' = st.mem
       /\ mpc' = IF st.err # "" THEN "raised" ELSE "ready"
    /\ UNCHANGED <<msrc, mkind, mlength, mshapes, mdtypes, mout>>
    /\ UNCHANGED <<cnv, line, size, sparseOut, denseOut, loadVars, fdVars, fldVars>>

\* iter() on the built dataset; mout holds one sequence per pass
MemIterStart ==
    /\ mpc = "ready"
    /\ Len(mout) < NIter
    /\ mout' = Append(mout, <<>>)
    /\ mpc' = "iter"
    /\ UNCHANGED <<msrc, mkind, mlength, mshapes, mdtypes, mem_data, mem_length>>
    /\ UNCHANGED <<cnv, line, size, sparseOut, denseOut, loadVars, fdVars, fldVars>>

\* element t (from 0) of a pass, lines 105-110
MemElement(mem, t) ==
    IF Len(mem) = 1 THEN mem[1][t + 1] ELSE [i \in 1..Len(mem) |-> mem[i][t + 1]]

\* next() on the pass
MemIterNext ==
    /\ mpc = "iter"
    /\ LET t == Len(mout[Len(mout)])
           limit == IF Len(mem_data) = 1 THEN Len(mem_data[1]) ELSE mem_length
       IN
       IF t < limit
       THEN /\ mout' = [mout EXCEPT ![Len(mout)] = Append(@, MemElement(mem_data, t))]
            /\ UNCHANGED mpc
       ELSE /\ mpc' = "ready"
            /\ UNCHANGED mout
    /\ UNCHANGED <<msrc, mkind, mlength, mshapes, mdtypes, mem_data, mem_length>>
    /\ UNCHANGED <<cnv, line, size, sparseOut, denseOut, loadVars, fdVars, fldVars>>

MemNext == MemConstruct \/ MemIterStart \/ MemIterNext

SpecMem == MemInit /\ [][MemNext]_vars

(***************************************************************************)
(* SpecFields: IteratorWithFields over a buffer of rows.                   *)
(***************************************************************************)
MaxRows == 2

\* a buffer whose cell (r, c) holds 10 r + c, so that every cell is distinct
Buffer(nrows, ncols) == [r \in 1..nrows |-> [c \in 1..ncols |-> 10 * r + c]]

Descriptors == ((-1)..(MaxCols + 1)) \X ((-1)..(MaxCols + 1))

\* a slice bound as r[beg:end] reads it on a row of n cells
SliceBoundShort(x, n) ==
    IF x < 0 THEN (IF x + n < 0 THEN 0 ELSE x + n)
    ELSE IF x >= n /\ n > 0 THEN n - 1 ELSE IF x > n THEN n ELSE x

SliceBound(x, n) ==
    IF x < 0 THEN (IF x + n < 0 THEN 0 ELSE x + n)
    ELSE IF x > n THEN n ELSE x

\* r[beg:end]
PySlice(r, beg, end) ==
    SubSeq(r, SliceBound(beg, Len(r)) + 1, SliceBound(end, Len(r)))

\* IteratorWithFields.__init__ keeps data and fields; iteration has not begun
FldInit ==
    /\ rows \in {Buffer(n, m) : n \in 0..MaxRows, m \in 0..MaxCols}
    /\ fields \in SeqsUpTo(Descriptors, 2)
    /\ fout = <<>>
    /\ fpc = "iter"
    /\ cnv = "float"
    /\ LineIdle /\ LoadIdle /\ FdIdle /\ MemIdle

\* next(): the slices of the next row, or StopIteration
FieldsNext ==
    /\ fpc = "iter"
    /\ IF Len(fout) < Len(rows)
       THEN /\ fout' = Append(fout,
                   [k \in 1..Len(fields) |->
                       PySlice(rows[Len(fout) + 1], fields[k][1], fields[k][2])])
            /\ UNCHANGED fpc
       ELSE /\ fpc' = "done"
            /\ UNCHANGED fout
    /\ UNCHANGED <<rows, fields>>
    /\ UNCHANGED <<cnv, line, size, sparseOut, denseOut, loadVars, fdVars, memVars>>

SpecFields == FldInit /\ [][FieldsNext]_vars

(***************************************************************************)
(* Properties of libsvm_load_line (SpecLine)                               *)
(***************************************************************************)
\* the line starts with a label, a token without ':'
Labelled(ln) == Len(ln) > 0 /\ Find(ln[1]) = -1

\* id and value of a token, cut at its first ':'
IdOf(tok) == Prefix(tok, Find(tok))

ValueOf(tok) == SubSeq(tok, Find(tok) + 2, Len(tok))

\* the tokens after the target with an all-digit id
NumericFeature(tok) == Find(tok) >= 0 /\ IsDigit(IdOf(tok))

\* the largest numeric feature index on a line, 0 when it has none
MaxFeatureIndex(ln) ==
    LET ids == {int(IdOf(ln[k])) : k \in {j \in 2..Len(ln) : NumericFeature(ln[j])}}
    IN IF ids = {} THEN 0 ELSE CHOOSE m \in ids : \A x \in ids : x <= m

\* a zero vector of length n with vector[indices[k]-1] = values[k], k in order
RECURSIVE Rebuild(_, _, _, _)
Rebuild(values, indices, n, k) ==
    IF k = 0 THEN Zeros(n)
    ELSE [Rebuild(values, indices, n, k - 1) EXCEPT ![indices[k]] = values[k]]

\* C1: for a valid line and an input_size at least the largest feature index,
\* the dense vector rebuilt from the sparse output equals the dense output's
\* vector, and target and extra fields of the two outputs are equal.
C1_SparseDenseAgree ==
    (/\ sparseOut # Pending /\ denseOut # Pending
     /\ Labelled(line)
     /\ sparseOut.err = ""
     /\ size >= MaxFeatureIndex(line))
    => /\ denseOut.err = ""
       /\ Rebuild(sparseOut.inputs, sparseOut.indices, size, Len(sparseOut.indices))
            = denseOut.input
       /\ sparseOut.target = denseOut.target
       /\ sparseOut.extra = denseOut.extra

\* both modes parsed a labelled line with two numeric features of different index
C1_Witness ==
    /\ Labelled(line)
    /\ sparseOut # Pending /\ sparseOut.err = ""
    /\ denseOut # Pending /\ denseOut.err = ""
    /\ size >= MaxFeatureIndex(line)
    /\ Len(sparseOut.indices) = 2
    /\ sparseOut.indices[1] # sparseOut.indices[2]
    /\ \E k \in 1..size : denseOut.input[k] # 0

\* a feature token whose id is an integer (digits, maybe signed) that is <= 0
NonPositiveIndex(tok) ==
    /\ Find(tok) >= 0
    /\ IsFloat(IdOf(tok))
    /\ Float(IdOf(tok)) <= 0

\* the line without its feature tokens of index <= 0
RECURSIVE DropNonPositive(_)
DropNonPositive(feats) ==
    IF Len(feats) = 0 THEN <<>>
    ELSE IF NonPositiveIndex(Head(feats)) THEN DropNonPositive(Tail(feats))
    ELSE <<Head(feats)>> \o DropNonPositive(Tail(feats))

WithoutNonPositive(ln) == <<Head(ln)>> \o DropNonPositive(Tail(ln))

\* C2: a feature whose index is zero or negative is absent from the whole
\* output record in sparse and in dense mode and is not counted in n_feat:
\* the output is the output for the line without that feature.
C2_NonPositiveAbsent ==
    Labelled(line) =>
       /\ sparseOut # Pending =>
            sparseOut = libsvm_load_line(WithoutNonPositive(line), cnv, TRUE, -1)
       /\ denseOut # Pending =>
            denseOut = libsvm_load_line(WithoutNonPositive(line), cnv, FALSE, size)

\* the extra fields of a line, each token cut at its first ':'
RECURSIVE ExpectedExtra(_, _)
ExpectedExtra(feats, c) ==
    IF Len(feats) = 0 THEN <<>>
    ELSE IF IsDigit(IdOf(Head(feats))) THEN ExpectedExtra(Tail(feats), c)
    ELSE LET x == ConvertNonDigit(c, IdOf(Head(feats)), ValueOf(Head(feats))) IN
         <<<<x[2], x[3]>>>> \o ExpectedExtra(Tail(feats), c)

\* the tokens after the target that the first loop keeps
KeptFeatures(ln) ==
    {k \in 2..Len(ln) : ~(NumericFeature(ln[k]) /\ int(IdOf(ln[k])) < 1)}

\* number of ':' in a token
Colons(tok) == Cardinality({k \in 1..Len(tok) : tok[k] = ":"})

\* a token that is id:value when cut at its first ':', with a number for
\* value when the id is numeric
FirstColonOK(tok) ==
    Find(tok) >= 0 /\ (IsDigit(IdOf(tok)) => IsFloat(ValueOf(tok)))

\* C10 as stated: tokens are cut at their first ':', so a value that holds a
\* ':' is accepted, and the tokens with a non-digit id give the extra fields
\* in order.
C10_FirstColonSplit ==
    (/\ sparseOut # Pending
     /\ Labelled(line)
     /\ cnv = "pair"
     /\ \A k \in 2..Len(line) : FirstColonOK(line[k]))
    => /\ sparseOut.err = ""
       /\ sparseOut.extra = ExpectedExtra(Tail(line), cnv)

\* C10 amended: a kept token must hold exactly one ':' (a second ':' raises);
\* when the line is accepted the tokens with a non-digit id give the extra
\* fields, one each, in encounter order, in both modes, and n_feat counts
\* only the kept tokens with an all-digit id.
C10_SingleColonSplit ==
    Labelled(line) =>
       /\ (\E k \in KeptFeatures(line) : Colons(line[k]) # 1)
            => /\ sparseOut # Pending => sparseOut.err # ""
               /\ denseOut # Pending => denseOut.err # ""
       /\ (sparseOut # Pending /\ sparseOut.err = "")
            => /\ sparseOut.extra = ExpectedExtra(Tail(line), cnv)
               /\ sparseOut.n_feat
                    = Cardinality({k \in KeptFeatures(line) : NumericFeature(line[k])})
               /\ sparseOut.n_feat = Len(sparseOut.indices)
       /\ (denseOut # Pending /\ denseOut.err = "")
            => denseOut.extra = ExpectedExtra(Tail(line), cnv)

\* an accepted line with two different extra fields and a numeric feature
C10_Witness ==
    /\ Labelled(line)
    /\ sparseOut # Pending /\ sparseOut.err = ""
    /\ Len(sparseOut.extra) = 2
    /\ sparseOut.extra[1] # sparseOut.extra[2]

(***************************************************************************)
(* Properties of libsvm_load (SpecLoad)                                    *)
(***************************************************************************)
\* the largest numeric feature index of a file, 0 when it has none
RECURSIVE FileMaxIndex(_)
FileMaxIndex(f) ==
    IF Len(f) = 0 THEN 0
    ELSE LET m == FileMaxIndex(Tail(f))
             h == MaxFeatureIndex(Head(f))
         IN IF h > m THEN h ELSE m

\* the size of the dense vectors: the supplied one, or else the one the file needs
EffectiveSize == IF given_input_size = None THEN FileMaxIndex(file) ELSE given_input_size

\* libsvm_load_line accepts every line of the file in the requested mode
EveryLineAccepted ==
    \A k \in 1..Len(file) :
        /\ Labelled(file[k])
        /\ libsvm_load_line(file[k], cnv, sparse, EffectiveSize).err = ""

Finished == lpc \in {"done", "raised"}

\* C3: for a file whose lines libsvm_load_line accepts, libsvm_load returns
\* one example per line, in file order; a line with a target and no numeric
\* feature does not make it fail.
C3_OneExamplePerLine ==
    (Finished /\ EveryLineAccepted)
    => /\ lpc = "done"
       /\ Len(data) = Len(file)
       /\ \A k \in 1..Len(file) :
              data[k] = libsvm_load_line(file[k], cnv, sparse, EffectiveSize)

\* C4: when libsvm_load returns, metadata['targets'] is the set of the
\* targets of all lines; metadata['input_size'] is the largest feature index
\* of the file (0 for an empty file) when no input_size was supplied, and the
\* supplied value otherwise.
C4_Metadata ==
    lpc = "done"
    => /\ metadata.targets = {ConvertTarget(file[k][1]) : k \in 1..Len(file)}
       /\ given_input_size = None => metadata.input_size = FileMaxIndex(file)
       /\ given_input_size # None => metadata.input_size = given_input_size

\* a dense load of two lines with different targets returned, the size found
\* in the file, the larger index on the first line
C4_Witness ==
    /\ lpc = "done"
    /\ ~sparse
    /\ given_input_size = None
    /\ Len(file) = 2
    /\ Cardinality(targets) = 2
    /\ input_size = 3
    /\ MaxFeatureIndex(file[2]) < 3

\* the first line with a feature index above n
FirstAbove(f, n) ==
    CHOOSE k \in 1..Len(f) :
        /\ MaxFeatureIndex(f[k]) > n
        /\ \A j \in 1..(k - 1) : MaxFeatureIndex(f[j]) <= n

\* C5: a dense load with a supplied input_size below the largest feature
\* index of the file ends in an out-of-range error raised on the first line
\* whose index exceeds input_size, and returns nothing; without a supplied
\* input_size the dense pass raises no out-of-range error.
C5_UnderSuppliedRaises ==
    /\ (/\ Finished /\ ~sparse
        /\ given_input_size # None
        /\ given_input_size < FileMaxIndex(file)
        /\ \A k \in 1..Len(file) :
              /\ Labelled(file[k])
              /\ libsvm_load_line(file[k], cnv, TRUE, -1).err = "")
       => /\ lpc = "raised"
          /\ lerr = "IndexError"
          /\ lpos = FirstAbove(file, given_input_size)
          /\ Len(data) = lpos - 1
    /\ (Finished /\ ~sparse /\ given_input_size = None /\ lpass = 2)
       => lerr # "IndexError"

(***************************************************************************)
(* Properties of FileDataset (SpecFile)                                    *)
(***************************************************************************)
\* C6: a pass closes the handle it opened, when it runs to completion and
\* when the caller abandons it after some of the lines.
C6_HandleClosed ==
    \A p \in Passes : pstate[p] \in {"done", "abandoned"} => ~stream[p].open

\* the examples of the first n lines
Loaded(n) == [k \in 1..n |-> load_line(fdfile[k]).val]

\* C7: each pass reads the file from its start through its own handle and
\* yields load_line of every line in file order, however the next-steps of
\* the passes interleave; two finished passes yielded the same sequence.
C7_PassesIndependent ==
    /\ \A p \in Passes :
          /\ Len(yielded[p]) <= Len(fdfile)
          /\ yielded[p] = Loaded(Len(yielded[p]))
          /\ pstate[p] \in {"suspended", "abandoned"} => stream[p].pos = Len(yielded[p])
          /\ pstate[p] = "raised" =>
                /\ stream[p].pos = Len(yielded[p]) + 1
                /\ load_line(fdfile[stream[p].pos]).err # ""
          /\ pstate[p] = "done" =>
                /\ yielded[p] = Loaded(Len(fdfile))
                /\ \A k \in 1..Len(fdfile) : load_line(fdfile[k]).err = ""
    /\ \A p, q \in Passes :
          (pstate[p] \in {"done", "raised"} /\ pstate[q] \in {"done", "raised"})
          => yielded[p] = yielded[q]

\* two passes in flight over a two-line file, one a line ahead of the other
C7_Witness ==
    /\ Len(fdfile) = 2
    /\ pstate[1] = "suspended" /\ pstate[2] = "suspended"
    /\ Len(yielded[1]) = 2 /\ Len(yielded[2]) = 1
    /\ yielded[1][1] # yielded[1][2]

(***************************************************************************)
(* Properties of MemoryDataset (SpecMem)                                   *)
(***************************************************************************)
\* every number of the source can be stored unchanged in its field's buffer
Representable ==
    \A t \in 1..Len(msrc) : \A i \in 1..Len(mshapes) :
        LET v == IF Len(mshapes) = 1 THEN msrc[t] ELSE msrc[t][i] IN
        Cast(mdtypes[i], mshapes[i], v) = v

\* C8: a MemoryDataset built from a finite iterable of conforming examples,
\* with length omitted or equal to the number of examples, is built without
\* error and every iteration pass yields the examples of the source, in order.
C8_RoundTrip ==
    (/\ mpc # "new"
     /\ mlength \in {None, Len(msrc)}
     /\ Representable)
    => /\ mpc # "raised"
       /\ \A k \in 1..Len(mout) :
              mpc = "ready" => mout[k] = msrc

(***************************************************************************)
(* Properties of IteratorWithFields (SpecFields)                           *)
(***************************************************************************)
\* a range [begin, end) that runs past the n columns of the buffer
ExceedsExtent(d, n) == 0 <= d[1] /\ d[1] <= d[2] /\ d[2] > n

\* C9 as stated: with a descriptor that exceeds the column extent, iteration
\* fails and yields no shortened or empty slice.
C9_OutOfExtentFails ==
    (\E k \in 1..Len(fields) : \E t \in 1..Len(rows) :
         ExceedsExtent(fields[k], Len(rows[t])))
    => fout = <<>>

Min(a, b) == IF a < b THEN a ELSE b

\* the cells of r from begin up to, not including, end, as far as r has them
Clamped(r, d) ==
    [j \in 1..(Min(d[2], Len(r)) - Min(d[1], Len(r))) |-> r[Min(d[1], Len(r)) + j]]

\* C9 amended: iteration does not fail; every row yields one element, the
\* list of its slices in descriptor order, and the slice of a range
\* 0 <= begin <= end is the row's cells from begin up to end, cut at the end
\* of the row when the range exceeds the extent.
C9_SlicesClamped ==
    /\ fpc = "done" => Len(fout) = Len(rows)
    /\ \A t \in 1..Len(fout) :
          /\ Len(fout[t]) = Len(fields)
          /\ \A k \in 1..Len(fields) :
                (0 <= fields[k][1] /\ fields[k][1] <= fields[k][2])
                => fout[t][k] = Clamped(rows[t], fields[k])

\* a yielded slice that a range past the extent shortened but left non-empty
C9_Witness ==
    \E t \in 1..Len(fout) : \E k \in 1..Len(fields) :
        /\ ExceedsExtent(fields[k], Len(rows[t]))
        /\ Len(fout[t][k]) >= 1
        /\ Len(fout[t][k]) < fields[k][2] - fields[k][1]

====
